---- MODULE Spec2Model ----
(***************************************************************************)
(* Model of scripts/convert.py: the VB -> C#/Java conversion pipeline.     *)
(*                                                                         *)
(* Text is a sequence of atoms.  An atom is either one character ("\n",    *)
(* " ", ".", "/", "c", ...; the backtick is written Backtick) or an opaque *)
(* run of characters that holds no backtick, newline, dot or slash and     *)
(* neither starts nor ends a text that is stripped with whitespace, such   *)
(* as "Foo" or "public class Foo {}".                                      *)
(*                                                                         *)
(* Three specifications: Spec is one run of main on a command line that    *)
(* argparse accepted; SpecExtract applies extract_code_block to bounded    *)
(* response texts; SpecHeader invokes inject_governance_header twice.      *)
(***************************************************************************)
EXTENDS Integers, Sequences, FiniteSets, TLC

(* ------------------------------------------------------------------ *)
(* Bounds of the model                                                *)
(* ------------------------------------------------------------------ *)

\* Longest response, in chunks, fed to extract_code_block on its own.
MaxChunks == 5

(* ------------------------------------------------------------------ *)
(* Text helpers                                                       *)
(* ------------------------------------------------------------------ *)

NL == "\n"

\* The backtick character.
Backtick == "<backtick>"

\* The value Python's None has in the model.
None == <<"<None>">>

\* str.isspace() on the atoms of the model.
IsSpace(c) == c \in {" ", NL, "\t", "\r"}

RECURSIVE LStrip(_)
LStrip(s) ==
  IF s # <<>> /\ IsSpace(Head(s)) THEN LStrip(Tail(s)) ELSE s

RECURSIVE RStrip(_)
RStrip(s) ==
  IF s # <<>> /\ IsSpace(s[Len(s)]) THEN RStrip(SubSeq(s, 1, Len(s) - 1)) ELSE s

\* str.strip(): removes leading and trailing whitespace.
Strip(s) == RStrip(LStrip(s))

\* Least and greatest element of a non-empty set of integers.
Min(S) == CHOOSE x \in S : \A y \in S : x <= y
Max(S) == CHOOSE x \in S : \A y \in S : x >= y

\* s[i:i+len(lit)] == lit   (1-based i)
LitAt(s, i, lit) ==
  /\ i >= 1
  /\ i + Len(lit) - 1 <= Len(s)
  /\ \A k \in 1..Len(lit) : s[i + k - 1] = lit[k]

(* ------------------------------------------------------------------ *)
(* extract_code_block: re.findall(pattern, llm_output, re.DOTALL)     *)
(*   pattern = FENCE(?:csharp|java|cs)?\n(.*?)FENCE                   *)
(*   where FENCE is three backticks                                   *)
(* ------------------------------------------------------------------ *)

Fence == <<Backtick, Backtick, Backtick>>

\* The alternatives of the optional group, in the order the engine tries them.
TagAlternatives ==
  << <<"c", "s", "h", "a", "r", "p">>, <<"j", "a", "v", "a">>, <<"c", "s">> >>

\* Positions right after the optional group when the fence starts at i, in the
\* engine's order: each alternative that matches, then the empty match (the
\* group is greedy-optional, so skipping it is tried last).
AfterTag(s, i) ==
  LET p == i + Len(Fence)
      Alt(n) == IF LitAt(s, p, TagAlternatives[n])
                THEN <<p + Len(TagAlternatives[n])>> ELSE <<>>
  IN Alt(1) \o Alt(2) \o Alt(3) \o <<p>>

\* Variant: a greedy group, (.*)FENCE, which runs to the last closing fence.
GreedyUpToFence(s, j) ==
  LET fs == { k \in j..Len(s) : LitAt(s, k, Fence) }
  IN IF fs = {} THEN 0 ELSE Max(fs)

\* (.*?)FENCE from position j on: the lazy group grows one atom at a time (DOTALL:
\* any atom, newline included) until the closing fence matches; 0 when it never does.
RECURSIVE LazyUpToFence(_, _)
LazyUpToFence(s, j) ==
  IF j + Len(Fence) - 1 > Len(s) THEN 0
  ELSE IF LitAt(s, j, Fence) THEN j
  ELSE LazyUpToFence(s, j + 1)

\* One attempt of the engine to match the pattern at position i, backtracking
\* over the candidates of the optional group.  Returns <<>> for no match, or
\* <<[group |-> captured text, end |-> first position after the match]>>.
RECURSIVE TryCandidates(_, _)
TryCandidates(s, cands) ==
  IF cands = <<>> THEN <<>>
  ELSE LET p == Head(cands)
           j == IF p <= Len(s) /\ s[p] = NL THEN LazyUpToFence(s, p + 1) ELSE 0
       IN IF j # 0
          THEN <<[group |-> SubSeq(s, p + 1, j - 1), end |-> j + Len(Fence)]>>
          ELSE TryCandidates(s, Tail(cands))

MatchAt(s, i) ==
  IF LitAt(s, i, Fence) THEN TryCandidates(s, AfterTag(s, i)) ELSE <<>>

\* re.findall: leftmost non-overlapping matches, scanning left to right; with
\* one group in the pattern the result is the list of that group's texts.
RECURSIVE FindAllFrom(_, _)
FindAllFrom(s, i) ==
  IF i > Len(s) THEN <<>>
  ELSE LET m == MatchAt(s, i)
       IN IF m = <<>> THEN FindAllFrom(s, i + 1)
          ELSE <<m[1].group>> \o FindAllFrom(s, m[1].end)

FindAll(s) == FindAllFrom(s, 1)

extract_code_block(llm_output) ==
  LET matches == FindAll(llm_output)
  IN IF matches = <<>> THEN Strip(llm_output) ELSE Strip(matches[1])

(* ------------------------------------------------------------------ *)
(* pathlib: name, suffix, stem, with_suffix on paths as atom sequences *)
(* ------------------------------------------------------------------ *)

\* Greatest index of atom c in s, 0 when absent (str.rfind, 1-based).
RFind(s, c) ==
  LET hits == { k \in 1..Len(s) : s[k] = c }
  IN IF hits = {} THEN 0 ELSE CHOOSE k \in hits : \A h \in hits : h <= k

\* Path(p).name: the final path component.
PathName(p) == SubSeq(p, RFind(p, "/") + 1, Len(p))

\* Path(p).parent joined back with "/" (empty for a bare file name).
PathParent(p) == SubSeq(p, 1, RFind(p, "/"))

\* PurePath.suffix: from the last dot of the name, unless the dot leads or
\* ends the name.
PathSuffix(p) ==
  LET name == PathName(p)
      i == RFind(name, ".")
  IN IF 1 < i /\ i < Len(name) THEN SubSeq(name, i, Len(name)) ELSE <<>>

\* PurePath.stem: the name without its suffix.
PathStem(p) ==
  LET name == PathName(p)
      i == RFind(name, ".")
  IN IF 1 < i /\ i < Len(name) THEN SubSeq(name, 1, i - 1) ELSE name

\* PurePath.with_suffix(suffix): the name's own suffix, if it has one, is
\* replaced; otherwise the suffix is appended.
with_suffix(p, suffix) ==
  LET name == PathName(p)
      old == PathSuffix(p)
  IN PathParent(p) \o SubSeq(name, 1, Len(name) - Len(old)) \o suffix

OutputDir == <<"src", "/", "generated">>
LogDir == <<"logs">>

\* save_generated_code lines 114-118: where the artifact goes.
output_path(source_path, target_lang) ==
  LET extension == IF target_lang = "CSHARP" THEN <<".", "cs">> ELSE <<".", "java">>
  IN with_suffix(OutputDir \o <<"/">> \o PathStem(source_path), extension)

\* main line 155: log_dir / f"failed_{Path(args.source).stem}.log"
log_file_path(source_path) ==
  LogDir \o <<"/", "failed_">> \o PathStem(source_path) \o <<".", "log">>

(* ------------------------------------------------------------------ *)
(* inject_governance_header                                           *)
(* ------------------------------------------------------------------ *)

\* os.getenv(name, default) on an environment value (None when unset).
getenv(value, default) == IF value = None THEN default ELSE value

DigitOf == <<"0", "1", "2", "3", "4", "5", "6", "7", "8", "9">>

\* datetime.isoformat() of the instant "now" seconds into the modelled minute.
isoformat(now) ==
  <<"2024-01-01T00:00:", DigitOf[((now \div 10) % 10) + 1], DigitOf[(now % 10) + 1]>>

\* Variant: a comment prefix that depends on the target language.
inject_header_prefix_by_lang(code, source_file, target_lang, model_name, run_id_env, now) ==
  LET run_id == getenv(run_id_env, <<"local">>)
      comment_style == IF target_lang = "CSHARP" THEN "//" ELSE "#"
  IN <<comment_style, " AUTO-GENERATED CODE", NL>>
     \o <<comment_style, " Pipeline Run ID: ">> \o run_id \o <<NL>>
     \o <<comment_style, " Source File: ">> \o source_file \o <<NL>>
     \o <<comment_style, " Model: ">> \o model_name \o <<NL>>
     \o <<comment_style, " Generated: ">> \o isoformat(now) \o <<NL>>
     \o <<comment_style, " WARNING: Review required before production use", NL>>
     \o <<NL>> \o code

inject_governance_header(code, source_file, target_lang, model_name, run_id_env, now) ==
  LET run_id == getenv(run_id_env, <<"local">>)
      timestamp == isoformat(now)
      comment_style == IF target_lang = "CSHARP" THEN "//" ELSE "//"
      header ==
        <<comment_style, " AUTO-GENERATED CODE", NL>>
        \o <<comment_style, " Pipeline Run ID: ">> \o run_id \o <<NL>>
        \o <<comment_style, " Source File: ">> \o source_file \o <<NL>>
        \o <<comment_style, " Model: ">> \o model_name \o <<NL>>
        \o <<comment_style, " Generated: ">> \o timestamp \o <<NL>>
        \o <<comment_style, " WARNING: Review required before production use", NL>>
        \o <<NL>>
  IN header \o code

(* ------------------------------------------------------------------ *)
(* Exceptions and the retry policy of call_llm                        *)
(*   @retry(stop=stop_after_attempt(3),                               *)
(*          wait=wait_exponential(multiplier=1, min=4, max=10))       *)
(* ------------------------------------------------------------------ *)

NoError == [type |-> "none", msg |-> <<>>]

\* load_prompt_template line 34.
TemplateNotFound(prompt_type) ==
  [type |-> "FileNotFoundError",
   msg |-> <<"Prompt template not found: ", "prompts", "/", prompt_type, ".", "txt">>]

\* load_source_code line 39: read_text of a missing or unreadable source.
SourceUnreadable(source_path) ==
  [type |-> "OSError", msg |-> <<"cannot read ">> \o source_path]

\* extract_code_block line 62: re.findall on a response whose content is None.
NotAString ==
  [type |-> "TypeError", msg |-> <<"expected string or bytes-like object">>]

\* What the completion service can answer an attempt with when it fails.
ServiceErrors ==
  { [type |-> "APIConnectionError", msg |-> <<"connection reset">>],
    [type |-> "RateLimitError", msg |-> <<"rate limit reached">>] }

\* tenacity raises RetryError(last_attempt) once the stop condition holds,
\* because the decorator does not ask for reraise; its text names the future
\* of the last attempt, not the message of the error that attempt raised.
RetryError(last) ==
  [type |-> "RetryError",
   msg |-> <<"RetryError[<Future state=finished raised ", last.type, ">]">>]

StopAfterAttempt == 3
WaitMultiplier == 1
WaitMin == 4
WaitMax == 10

MaxOf(a, b) == IF a >= b THEN a ELSE b
MinOf(a, b) == IF a <= b THEN a ELSE b

\* stop_after_attempt(3).__call__: the decorator's own ceiling (self.max_retries
\* is never read).
stop_after_attempt(attempt_number) ==
  attempt_number >= StopAfterAttempt

\* Variant: the exponential wait without its lower bound.
wait_exponential_no_floor(attempt_number) ==
  MinOf(WaitMultiplier * 2 ^ (attempt_number - 1), WaitMax)

\* wait_exponential.__call__ after the attempt numbered attempt_number.
wait_exponential(attempt_number) ==
  LET exp == 2 ^ (attempt_number - 1)
      result == WaitMultiplier * exp
  IN MaxOf(MaxOf(0, WaitMin), MinOf(result, WaitMax))

\* What the except clause of convert_file (line 108) receives when an attempt
\* of call_llm raised e and the stop condition holds.
raised_by_call_llm(e) == RetryError(e)

\* Variant: a check for an unset key only (api_key is None).
credential_missing_unset_only(key) == key = None

\* main line 138: the test "if not api_key".
credential_missing(key) == key = None \/ key = <<>>

\* convert_file line 109: the text written to the error stream.
failure_message(source_path, e) ==
  <<"Conversion failed for ">> \o source_path \o <<": ">> \o e.msg

(* ------------------------------------------------------------------ *)
(* State                                                              *)
(* ------------------------------------------------------------------ *)

VARIABLES
  pc,             \* position of the run
  api_key,        \* os.getenv("LLM_API_KEY"): None when unset
  run_id_env,     \* os.getenv("GITHUB_RUN_ID"): None when unset
  source,         \* args.source
  target_lang,    \* args.target_lang
  model,          \* args.model
  max_retries,    \* args.max_retries, stored in the engine
  templates,      \* the template files present under prompts/
  now,            \* the clock datetime.utcnow() reads
  stages,         \* pipeline stages completed, in order
  raised,         \* stage in which an error was raised ("none" if none was)
  caught,         \* the exception convert_file's except clause received
  reported,       \* the failure text convert_file wrote to the error stream
  attempts,       \* outcome of each attempt of call_llm, in order
  waits,          \* backoff waits performed, in seconds, in order
  loads,          \* number of loads of each prompt template
  source_reads,   \* number of reads of the source file
  requests,       \* completion requests sent to the service
  raw_output,     \* the response text (also the text under extraction)
  generated_code, \* the code extracted / with its header
  exit_status,    \* process exit status, -1 while running
  dirs,           \* directories the run created
  out_files,      \* files present under the output directory
  log_files,      \* files present under the log directory
  nchunks,        \* chunks received so far (extraction on its own)
  out_a, out_b    \* results of two header injections (header on its own)

args == <<api_key, run_id_env, source, target_lang, model, max_retries, templates, now>>
progress == <<stages, raised, caught, reported>>
retry == <<attempts, waits, requests>>
reads == <<loads, source_reads>>
texts == <<raw_output, generated_code>>
files == <<dirs, out_files, log_files>>
aside == <<nchunks, out_a, out_b>>

vars == <<pc, args, progress, retry, reads, texts, files, exit_status, aside>>

(* ------------------------------------------------------------------ *)
(* Inputs                                                             *)
(* ------------------------------------------------------------------ *)

\* Largest --max-retries value explored.
MaxRetriesArg == 4

\* Latest clock reading explored.
MaxClock == 3

TemplateIds == {"task_prompt", "system_prompt"}

Sources ==
  { <<"Foo", ".", "vb">>,
    <<"Foo", ".", "Bar", ".", "vb">>,
    <<"legacy", "/", "Util", ".", "vb">>,
    <<"Foo">> }

Models == { <<"gpt-4-turbo">>, <<"gpt-4o">> }

CodeText == "public class Foo {}"

\* response.choices[0].message.content of a successful completion: a fenced
\* csharp block, bare code, or None (a reply without text content).
Contents ==
  { Fence \o <<"c", "s", "h", "a", "r", "p", NL, CodeText, NL>> \o Fence,
    <<CodeText, NL>>,
    None }

\* How save_generated_code can end: normally; mkdir raising; open() raising
\* before the file exists; write() raising after open() created the file.
SaveOutcomes == {"ok", "mkdir_error", "open_error", "write_error"}

\* The parts of the state a run has not touched.
Untouched ==
  /\ stages = <<>>
  /\ raised = "none"
  /\ caught = NoError
  /\ reported = <<>>
  /\ attempts = <<>>
  /\ waits = <<>>
  /\ loads = [t \in TemplateIds |-> 0]
  /\ source_reads = 0
  /\ requests = 0
  /\ exit_status = -1
  /\ dirs = {}
  /\ out_files = {}
  /\ log_files = {}
  /\ nchunks = 0
  /\ out_a = None
  /\ out_b = None

(* ------------------------------------------------------------------ *)
(* main: one run of the script on a command line argparse accepted    *)
(* ------------------------------------------------------------------ *)

Init ==
  /\ pc = "main"
  /\ api_key \in {None, <<>>, <<"sk-live">>}
  /\ run_id_env \in {None, <<"4711">>}
  /\ source \in Sources
  /\ target_lang \in {"CSHARP", "JAVA"}
  /\ model = <<"gpt-4-turbo">>
  /\ max_retries \in 0..MaxRetriesArg
  /\ templates \in SUBSET TemplateIds
  /\ now = 0
  /\ raw_output = None
  /\ generated_code = None
  /\ Untouched

\* main lines 135-143: the credential check, then the engine is built.
Main ==
  /\ pc = "main"
  /\ IF credential_missing(api_key)
     THEN pc' = "done" /\ exit_status' = 1
     ELSE pc' = "load_source" /\ UNCHANGED exit_status
  /\ UNCHANGED <<args, progress, retry, reads, texts, files, aside>>

\* The except clause of convert_file (lines 108-110): report, return (False, "").
Fail(e, stage) ==
  /\ caught' = e
  /\ reported' = failure_message(source, e)
  /\ raised' = stage
  /\ pc' = "log_failure"

\* convert_file line 91: vb_code = self.load_source_code(source_path)
LoadSource ==
  /\ pc = "load_source"
  /\ source_reads' = source_reads + 1
  /\ \E readable \in BOOLEAN :
       IF readable
       THEN pc' = "assemble" /\ UNCHANGED <<raised, caught, reported>>
       ELSE Fail(SourceUnreadable(source), "LoadingSource")
  /\ UNCHANGED <<args, stages, retry, loads, texts, files, exit_status, aside>>

\* convert_file lines 94-96: load the task prompt, substitute the placeholders.
Assemble ==
  /\ pc = "assemble"
  /\ loads' = [loads EXCEPT !["task_prompt"] = @ + 1]
  /\ IF "task_prompt" \in templates
     THEN /\ stages' = Append(stages, "Assembling")
          /\ pc' = "call_llm"
          /\ UNCHANGED <<raised, caught, reported>>
     ELSE Fail(TemplateNotFound("task_prompt"), "LoadingTemplate") /\ UNCHANGED stages
  /\ UNCHANGED <<args, retry, source_reads, texts, files, exit_status, aside>>

\* What tenacity does with the outcome of the attempt just made.
AttemptEnds(outcome) ==
  /\ attempts' = Append(attempts, outcome)
  /\ IF outcome.ok
     THEN /\ raw_output' = outcome.content
          /\ stages' = Append(stages, "Calling")
          /\ pc' = "extract"
          /\ UNCHANGED <<raised, caught, reported>>
     ELSE IF stop_after_attempt(Len(attempts) + 1)
     THEN /\ Fail(raised_by_call_llm(outcome.err), "Calling")
          /\ UNCHANGED <<raw_output, stages>>
     ELSE /\ pc' = "backoff"
          /\ UNCHANGED <<raw_output, stages, raised, caught, reported>>

\* One attempt of call_llm (lines 44-57): the message list is built first, which
\* loads the system prompt (line 48); then the request is sent.
CallAttempt ==
  /\ pc = "call_llm"
  /\ loads' = [loads EXCEPT !["system_prompt"] = @ + 1]
  /\ IF "system_prompt" \in templates
     THEN /\ requests' = requests + 1
          /\ \E outcome \in
               [ok : {FALSE}, err : ServiceErrors, content : {None}]
               \cup [ok : {TRUE}, err : {NoError}, content : Contents] :
               AttemptEnds(outcome)
     ELSE /\ UNCHANGED requests
          /\ AttemptEnds([ok |-> FALSE, err |-> TemplateNotFound("system_prompt"),
                          content |-> None])
  /\ UNCHANGED <<args, waits, source_reads, generated_code, files, exit_status, aside>>

\* tenacity sleeps wait(retry_state) between two attempts.
Backoff ==
  /\ pc = "backoff"
  /\ waits' = Append(waits, wait_exponential(Len(attempts)))
  /\ pc' = "call_llm"
  /\ UNCHANGED <<args, progress, attempts, requests, reads, texts, files, exit_status, aside>>

\* convert_file line 103: generated_code = self.extract_code_block(raw_output)
Extract ==
  /\ pc = "extract"
  /\ IF raw_output = None
     THEN Fail(NotAString, "Extracting") /\ UNCHANGED <<stages, generated_code>>
     ELSE /\ generated_code' = extract_code_block(raw_output)
          /\ stages' = Append(stages, "Extracting")
          /\ pc' = "inject"
          /\ UNCHANGED <<raised, caught, reported>>
  /\ UNCHANGED <<args, retry, reads, raw_output, files, exit_status, aside>>

\* convert_file lines 104-106: inject the header, return (True, generated_code).
Inject ==
  /\ pc = "inject"
  /\ generated_code' =
       inject_governance_header(generated_code, source, target_lang, model, run_id_env, now)
  /\ stages' = Append(stages, "HeaderInjecting")
  /\ pc' = "save"
  /\ UNCHANGED <<args, raised, caught, reported, retry, reads, raw_output, files,
                 exit_status, aside>>

\* main lines 148-150: save_generated_code (lines 112-122), then sys.exit(0).
\* The call is outside any try: an exception ends the process with a traceback
\* and status 1.
Save ==
  /\ pc = "save"
  /\ \E outcome \in SaveOutcomes :
       /\ dirs' = IF outcome = "mkdir_error" THEN dirs ELSE dirs \cup {OutputDir}
       /\ out_files' =
            IF outcome = "ok"
            THEN out_files \cup {[path |-> output_path(source, target_lang),
                                  content |-> generated_code]}
            ELSE IF outcome = "write_error"
            THEN out_files \cup {[path |-> output_path(source, target_lang),
                                  content |-> <<>>]}
            ELSE out_files
       /\ raised' = IF outcome = "ok" THEN raised ELSE "Persisting"
       /\ exit_status' = IF outcome = "ok" THEN 0 ELSE 1
  /\ pc' = "done"
  /\ UNCHANGED <<args, stages, caught, reported, retry, reads, texts, log_files, aside>>

\* main lines 151-157: write the failure marker, then sys.exit(1).
LogFailure ==
  /\ pc = "log_failure"
  /\ dirs' = dirs \cup {LogDir}
  /\ log_files' = log_files \cup
       {[path |-> log_file_path(source),
         content |-> <<"Conversion failed for ">> \o source \o <<NL>>]}
  /\ exit_status' = 1
  /\ pc' = "done"
  /\ UNCHANGED <<args, progress, retry, reads, texts, out_files, aside>>

Next ==
  \/ Main
  \/ LoadSource
  \/ Assemble
  \/ CallAttempt
  \/ Backoff
  \/ Extract
  \/ Inject
  \/ Save
  \/ LogFailure

Spec == Init /\ [][Next]_vars

(* ------------------------------------------------------------------ *)
(* extract_code_block applied to bounded response texts               *)
(* ------------------------------------------------------------------ *)

\* The pieces responses are built from: fences, stray backticks, the known
\* tags, an unknown tag / code word, newline and blank.
Chunks ==
  { Fence, <<Backtick>>, <<"c", "s">>, <<"c", "s", "h", "a", "r", "p">>,
    <<"j", "a", "v", "a">>, <<NL>>, <<" ">>, <<"x">> }

InitExtract ==
  /\ pc = "receiving"
  /\ api_key = <<"sk-live">>
  /\ run_id_env = None
  /\ source = <<"Foo", ".", "vb">>
  /\ target_lang = "CSHARP"
  /\ model = <<"gpt-4-turbo">>
  /\ max_retries = 3
  /\ templates = TemplateIds
  /\ now = 0
  /\ raw_output = <<>>
  /\ generated_code = None
  /\ Untouched

\* The service's response grows by one chunk.
Receive ==
  /\ pc = "receiving"
  /\ nchunks < MaxChunks
  /\ \E c \in Chunks : raw_output' = raw_output \o c
  /\ nchunks' = nchunks + 1
  /\ UNCHANGED <<pc, args, progress, retry, reads, generated_code, files, exit_status,
                 out_a, out_b>>

\* convert_file line 103 on the text received.
ExtractCall ==
  /\ pc = "receiving"
  /\ generated_code' = extract_code_block(raw_output)
  /\ pc' = "extracted"
  /\ UNCHANGED <<args, progress, retry, reads, raw_output, files, exit_status, aside>>

NextExtract == Receive \/ ExtractCall

SpecExtract == InitExtract /\ [][NextExtract]_vars

(* ------------------------------------------------------------------ *)
(* inject_governance_header invoked twice                             *)
(* ------------------------------------------------------------------ *)

Codes == { <<CodeText>>, <<"class A {", NL, "}", NL>> }

InitHeader ==
  /\ pc = "header_a"
  /\ api_key = <<"sk-live">>
  /\ run_id_env \in {None, <<"4711">>}
  /\ source \in Sources
  /\ target_lang \in {"CSHARP", "JAVA"}
  /\ model \in Models
  /\ max_retries = 3
  /\ templates = TemplateIds
  /\ now = 0
  /\ raw_output = None
  /\ generated_code \in Codes
  /\ Untouched

\* Time passes.
Tick ==
  /\ pc \in {"header_a", "header_b"}
  /\ now < MaxClock
  /\ now' = now + 1
  /\ UNCHANGED <<pc, api_key, run_id_env, source, target_lang, model, max_retries,
                 templates, progress, retry, reads, texts, files, exit_status, aside>>

\* A first invocation, for the run's target language.
InjectFirst ==
  /\ pc = "header_a"
  /\ out_a' =
       inject_governance_header(generated_code, source, target_lang, model, run_id_env, now)
  /\ pc' = "header_b"
  /\ UNCHANGED <<args, progress, retry, reads, texts, files, exit_status, nchunks, out_b>>

\* A second invocation with the same code, run id, source path and model
\* name, for either target language.
InjectSecond ==
  /\ pc = "header_b"
  /\ \E lang \in {"CSHARP", "JAVA"} :
       out_b' =
         inject_governance_header(generated_code, source, lang, model, run_id_env, now)
  /\ pc' = "header_done"
  /\ UNCHANGED <<args, progress, retry, reads, texts, files, exit_status, nchunks, out_a>>

NextHeader == Tick \/ InjectFirst \/ InjectSecond

SpecHeader == InitHeader /\ [][NextHeader]_vars

(* ------------------------------------------------------------------ *)
(* Claims about a run of main (specification Spec)                    *)
(* ------------------------------------------------------------------ *)

\* The run got past the credential check.
PassedCredentialCheck == pc # "main" /\ api_key # None /\ api_key # <<>>

\* C1: in a run past the credential check, an error raised in any stage
\* (loading the source or a template, the completion call, extraction, header
\* injection, persisting the artifact) ends the run with no artifact file under
\* the output directory, the failure marker under the log directory, and a
\* non-zero exit status.
C1_AnyErrorLeavesMarkerNoArtifact ==
  (pc = "done" /\ PassedCredentialCheck /\ raised # "none") =>
    /\ out_files = {}
    /\ log_files # {}
    /\ exit_status >= 1

\* C2: with LLM_API_KEY unset or empty the run exits with status 1 before any
\* other activity: no completion request, no template or source read, no file
\* or directory created.
C2_MissingKeyExitsBeforeAnyActivity ==
  (api_key = None \/ api_key = <<>>) =>
    /\ pc \in {"main", "done"}
    /\ pc = "done" => exit_status = 1
    /\ requests = 0
    /\ attempts = <<>>
    /\ source_reads = 0
    /\ \A t \in TemplateIds : loads[t] = 0
    /\ dirs = {} /\ out_files = {} /\ log_files = {}

\* A run with an empty LLM_API_KEY has exited with status 1.
C2_Witness ==
  /\ api_key = <<>>
  /\ pc = "done"
  /\ exit_status = 1

\* call_llm gave up: the error it raised reached convert_file.
CallGaveUp == raised = "Calling"

\* C3: with --max-retries N >= 1, a call_llm invocation whose every attempt
\* fails makes exactly N attempts before giving up, and no invocation makes
\* more than N attempts.
C3_AttemptsBoundedByMaxRetries ==
  max_retries >= 1 =>
    /\ Len(attempts) <= max_retries
    /\ CallGaveUp => Len(attempts) = max_retries

\* C4: when every attempt fails, the error call_llm raises to convert_file is
\* the final attempt's own error, and the message convert_file reports is that
\* error's message.
C4_LastErrorPropagatesUnmasked ==
  CallGaveUp =>
    LET last == attempts[Len(attempts)].err
    IN /\ caught = last
       /\ reported = <<"Conversion failed for ">> \o source \o <<": ">> \o last.msg

\* call_llm returned a result to convert_file.
CallReturned == Len(stages) >= 2 /\ stages[2] = "Calling"

\* C5: with k < 3 failed attempts followed by a successful one, call_llm
\* returns the result of attempt k+1 after exactly k backoff waits, each within
\* [4, 10] seconds; it does not give up before the third failure, and waits
\* only between two attempts.
C5_RetryThenSuccess ==
  /\ \A i \in 1..Len(waits) : 4 <= waits[i] /\ waits[i] <= 10
  /\ Len(attempts) <= 3
  /\ pc = "call_llm" => Len(waits) = Len(attempts)
  /\ attempts # <<>> /\ pc # "call_llm" => Len(waits) = Len(attempts) - 1
  /\ CallGaveUp =>
       /\ Len(attempts) = 3
       /\ \A i \in 1..3 : ~attempts[i].ok
  /\ CallReturned =>
       LET n == Len(attempts)
       IN /\ attempts[n].ok
          /\ \A i \in 1..(n - 1) : ~attempts[i].ok
          /\ pc = "extract" => raw_output = attempts[n].content
          /\ Len(waits) = n - 1

\* Two failures followed by a success: the third attempt's result is returned
\* after exactly two waits.
C5_Witness ==
  /\ pc = "extract"
  /\ Len(attempts) = 3
  /\ ~attempts[1].ok /\ ~attempts[2].ok /\ attempts[3].ok
  /\ raw_output = attempts[3].content
  /\ raw_output # None
  /\ Len(waits) = 2

\* The file name of p with only its final extension removed.
SourceBaseName(p) ==
  LET name == SubSeq(p, RFind(p, "/") + 1, Len(p))
      dots == { k \in 2..(Len(name) - 1) : name[k] = "." }
  IN IF dots = {} THEN name ELSE SubSeq(name, 1, Max(dots) - 1)

\* C7: the artifact is written to the output directory under the source's base
\* name (only the final extension removed) followed by .cs for CSHARP or .java
\* for JAVA, and the failure marker is named failed_<that base name>.log.
C7_ArtifactAndMarkerNames ==
  /\ \A f \in out_files :
       f.path = <<"src", "/", "generated", "/">> \o SourceBaseName(source)
                \o (IF target_lang = "CSHARP" THEN <<".", "cs">> ELSE <<".", "java">>)
  /\ \A f \in log_files :
       f.path = <<"logs", "/", "failed_">> \o SourceBaseName(source) \o <<".", "log">>

\* C9: when a referenced prompt template (task prompt or system prompt) is
\* absent, the run becomes a conversion failure after a single load attempt of
\* that template, with no backoff wait.
C9_AbsentTemplateNotRetried ==
  \A t \in TemplateIds :
    (t \notin templates /\ loads[t] >= 1) =>
      /\ loads[t] = 1
      /\ waits = <<>>
      /\ pc \in {"log_failure", "done"}
      /\ pc = "done" => (exit_status = 1 /\ log_files # {})

\* C10: artifact and failure marker are never both written; the exit status is
\* 0 exactly when the artifact file was written after Assembling, Calling,
\* Extracting and HeaderInjecting completed in that order; every other
\* terminating run exits with status 1.
C10_ExitStatusMatchesArtifact ==
  /\ ~(out_files # {} /\ log_files # {})
  /\ pc = "done" =>
       /\ exit_status \in {0, 1}
       /\ exit_status = 0 <=>
            /\ out_files # {}
            /\ stages = <<"Assembling", "Calling", "Extracting", "HeaderInjecting">>

(* ------------------------------------------------------------------ *)
(* C8: the header (specification SpecHeader)                          *)
(* ------------------------------------------------------------------ *)

\* str.split("\n"): the lines of s.
RECURSIVE SplitLines(_)
SplitLines(s) ==
  LET ends == { k \in 1..Len(s) : s[k] = NL }
  IN IF ends = {} THEN <<s>>
     ELSE <<SubSeq(s, 1, Min(ends) - 1)>> \o SplitLines(SubSeq(s, Min(ends) + 1, Len(s)))

\* out is the six header lines, a blank line, then code.
HeaderThenCode(out, code) ==
  LET ls == SplitLines(out)
  IN /\ Len(out) >= Len(code)
     /\ SubSeq(out, Len(out) - Len(code) + 1, Len(out)) = code
     /\ Len(ls) = 7 + Len(SplitLines(code))
     /\ ls[1] = <<"//", " AUTO-GENERATED CODE">>
     /\ ls[2] = <<"//", " Pipeline Run ID: ">>
                \o (IF run_id_env = None THEN <<"local">> ELSE run_id_env)
     /\ ls[3] = <<"//", " Source File: ">> \o source
     /\ ls[4] = <<"//", " Model: ">> \o model
     /\ SubSeq(ls[5], 1, 2) = <<"//", " Generated: ">>
     /\ Len(ls[5]) = 5
     /\ ls[6] = <<"//", " WARNING: Review required before production use">>
     /\ ls[7] = <<>>

\* C8: inject_governance_header returns the six-line header (marker, run id or
\* 'local', source path, model, timestamp, warning), a blank line and the code
\* unchanged; two invocations with the same code, run id, source path and
\* model, for either target language, differ only in the timestamp line.
C8_HeaderDiffersOnlyInTimestamp ==
  pc = "header_done" =>
    LET la == SplitLines(out_a)
        lb == SplitLines(out_b)
    IN /\ HeaderThenCode(out_a, generated_code)
       /\ HeaderThenCode(out_b, generated_code)
       /\ Len(la) = Len(lb)
       /\ \A i \in 1..Len(la) : i # 5 => la[i] = lb[i]

\* Two invocations at different instants, without GITHUB_RUN_ID, the first one
\* for JAVA, gave different outputs.
C8_Witness ==
  /\ pc = "header_done"
  /\ run_id_env = None
  /\ target_lang = "JAVA"
  /\ out_a # out_b
  /\ SplitLines(out_a)[2] = <<"//", " Pipeline Run ID: ", "local">>


(* ------------------------------------------------------------------ *)
(* C6: what extract_code_block is to return                           *)
(* ------------------------------------------------------------------ *)

\* The tags an opening fence line may carry: none, csharp, java, cs.
AllowedTags ==
  { <<>>, <<"c", "s", "h", "a", "r", "p">>, <<"j", "a", "v", "a">>, <<"c", "s">> }

\* An opening fence line starts at i: three backticks, an allowed tag, newline.
OpensAt(s, i) ==
  \E t \in AllowedTags : LitAt(s, i, Fence \o t \o <<NL>>)

\* First position of the inner text of the block opening at i.
InnerStart(s, i) ==
  CHOOSE c \in 1..(Len(s) + 1) :
    \E t \in AllowedTags :
      LitAt(s, i, Fence \o t \o <<NL>>) /\ c = i + Len(Fence) + Len(t) + 1

\* Positions at or after c where a triple backtick starts.
FencesFrom(s, c) == { j \in c..Len(s) : LitAt(s, j, Fence) }

\* Opening lines that are closed by a later triple backtick.
BlockStarts(s) ==
  { i \in 1..Len(s) : OpensAt(s, i) /\ FencesFrom(s, InnerStart(s, i)) # {} }

\* Inner text of the fenced block opening at i: from after the opening line up
\* to the next triple backtick.
BlockInner(s, i) ==
  LET c == InnerStart(s, i)
  IN SubSeq(s, c, Min(FencesFrom(s, c)) - 1)

\* s without its leading and trailing whitespace.
Trimmed(s) ==
  LET solid == { k \in 1..Len(s) : ~IsSpace(s[k]) }
  IN IF solid = {} THEN <<>> ELSE SubSeq(s, Min(solid), Max(solid))

C6_WitnessTagged ==
  /\ pc = "extracted"
  /\ raw_output = Fence \o <<"c", "s", "h", "a", "r", "p", NL, "x">> \o Fence
  /\ generated_code = <<"x">>

\* A response without any fenced block has been returned whole, trimmed.
C6_WitnessFallback ==
  /\ pc = "extracted"
  /\ BlockStarts(raw_output) = {}
  /\ raw_output = <<" ", "x", " ", "x", NL>>
  /\ generated_code = <<"x", " ", "x">>

====
